---- MODULE Spec2Model ----
(***************************************************************************)
(* Identity cache, LID resolver and message normalizer of wa-api-v4        *)
(* (src/src/messageNormalizer.js), with the backing directory, the socket  *)
(* credential table and the directory watch as their environment.          *)
(*                                                                         *)
(* Identifiers, LIDs, phone numbers and file names are sequences of        *)
(* one-character strings, so that the code's string tests (startsWith,     *)
(* includes, replace, split, the digit patterns) are computed.             *)
(***************************************************************************)
EXTENDS Integers, Sequences, FiniteSets, TLC

VARIABLES
    authDirExists,   \* fs.existsSync(authDir)
    authFiles,       \* the directory listing, in readdir order: entries written by the protocol client
    lidToPhoneCache, \* Map LID -> phone
    phoneToLidCache, \* Map phone -> LID
    mappingsLoaded,  \* boolean
    fileWatcher,     \* "none" (null) | "live" | "dead" (handle kept, directory it watched is gone)
    watchesStarted,  \* how many times fs.watch returned a watcher (none is ever closed)
    pending,         \* change notifications queued for the watch callback (file names)
    webhookUrl,        \* config.webhookUrl is set
    processedMessages, \* the ids of the Set, of the messages followed here
    processedOthers,   \* how many ids of other messages the Set holds besides
    upserts,           \* the messages.upsert events emitted so far
    handlers,          \* where the handler of each of them stands
    events,            \* what the handlers did: marked an id, normalized, posted
    postedSinceClear,  \* the posts made since the Set was last cleared
    qrCodeData,        \* the stored QR code
    connects,          \* how many times connectToWhatsApp() was called
    last             \* what the last operation was and returned

vars == <<authDirExists, authFiles, lidToPhoneCache, phoneToLidCache,
          mappingsLoaded, fileWatcher, watchesStarted, pending,
          webhookUrl, processedMessages, processedOthers, upserts, handlers, events,
          postedSinceClear, qrCodeData, connects, last>>

-----------------------------------------------------------------------------
(* Bounds of the model *)

\* most entries the backing directory holds at a time
MaxFiles == 2
\* most change notifications waiting for the watch callback
MaxPending == 1

-----------------------------------------------------------------------------
(* Strings as character sequences *)

Rep(c, n) == [i \in 1..n |-> c]

Digits == {"0", "1", "2", "3", "4", "5", "6", "7", "8", "9"}

\* JS undefined / null where a string is expected
Absent == <<"<absent>">>

EmptyStr == <<>>

\* JS truthiness of a string-or-null value
Truthy(s) == s # Absent /\ s # EmptyStr

StartsWith(s, t) == Len(s) >= Len(t) /\ SubSeq(s, 1, Len(t)) = t

EndsWith(s, t) == Len(s) >= Len(t) /\ SubSeq(s, Len(s) - Len(t) + 1, Len(s)) = t

OccursAt(s, t, i) == i + Len(t) - 1 <= Len(s) /\ SubSeq(s, i, i + Len(t) - 1) = t

Includes(s, t) == \E i \in 1..(Len(s) + 1) : OccursAt(s, t, i)

\* first index where t occurs in s, 0 when it does not
IndexOf(s, t) ==
    IF Includes(s, t)
    THEN CHOOSE i \in 1..(Len(s) + 1) :
             OccursAt(s, t, i) /\ \A j \in 1..(i - 1) : ~OccursAt(s, t, j)
    ELSE 0

\* String.prototype.replace with a string pattern: the first occurrence only
ReplaceFirst(s, t, r) ==
    LET i == IndexOf(s, t)
    IN  IF i = 0 THEN s
        ELSE SubSeq(s, 1, i - 1) \o r \o SubSeq(s, i + Len(t), Len(s))

\* s.split(c)[0]
SplitHead(s, c) ==
    LET i == IndexOf(s, <<c>>)
    IN  IF i = 0 THEN s ELSE SubSeq(s, 1, i - 1)

\* the run of digits s starts with
LeadingDigits(s) ==
    LET n == CHOOSE k \in 0..Len(s) :
                 /\ \A j \in 1..k : s[j] \in Digits
                 /\ (k < Len(s) => s[k + 1] \notin Digits)
    IN  SubSeq(s, 1, n)

\* /^\d{10,15}$/
MinPhoneDigits == 10
MaxPhoneDigits == 15
\* a slip: the pattern without its upper bound, /^\d{10,}$/
LooksLikePhone_NoUpperBound(s) ==
    /\ Len(s) >= MinPhoneDigits
    /\ \A j \in 1..Len(s) : s[j] \in Digits

LooksLikePhone(s) ==
    /\ Len(s) >= MinPhoneDigits
    /\ Len(s) <= MaxPhoneDigits
    /\ \A j \in 1..Len(s) : s[j] \in Digits

LidMappingPrefix == <<"l", "i", "d", "-", "m", "a", "p", "p", "i", "n", "g", "-">>
DotJson == <<".", "j", "s", "o", "n">>
ReverseMark == <<"_", "r", "e", "v", "e", "r", "s", "e">>
ReverseDotJson == ReverseMark \o DotJson

LidSuffix == <<"@", "l", "i", "d">>
DirectSuffix == <<"@", "s", ".", "w", "h", "a", "t", "s", "a", "p", "p", ".", "n", "e", "t">>
GroupSuffix == <<"@", "g", ".", "u", "s">>

-----------------------------------------------------------------------------
(* The values the environment draws from *)

D9  == Rep("7", 9)
D10 == Rep("1", 10)
D11 == Rep("3", 11)
D14 == Rep("4", 14)
D15 == Rep("5", 15)
D16 == Rep("6", 16)
LX  == Rep("2", 10) \o <<"x">>
LA  == <<"a", "b", "c">>

P1 == <<"6", "2", "8", "1">>
P2 == <<"6", "2", "8", "2">>

\* LIDs the protocol client writes mappings for
StoredLids == {D10, LX}
\* LIDs the protocol client writes reverse files for
ReverseLids == {D10}
\* LIDs around the bounds of the phone-number pattern
AllLids == {D9, D10, D11, D14, D15, D16, LX, LA}
Phones == {P1, P2}

\* what JSON.parse(readFileSync(..)) gives: a value, or a throw for an unparsable file
Parsed(v) == [ok |-> TRUE, val |-> v]
Unparsable == [ok |-> FALSE, val |-> Absent]

\* directory entries as the protocol client names them
ForwardEntries == {[kind |-> "fwd", key |-> p, content |-> c] :
                      p \in Phones, c \in {Parsed(l) : l \in StoredLids} \cup {Unparsable}}
ReverseEntries == {[kind |-> "rev", key |-> l, content |-> c] :
                      l \in ReverseLids, c \in {Parsed(p) : p \in Phones} \cup {Unparsable}}
Entries == ForwardEntries \cup ReverseEntries
\* the credentials file the protocol client keeps in the same directory
CredsEntry == [kind |-> "other", key |-> <<"c", "r", "e", "d", "s">>, content |-> Unparsable]

\* the name the protocol client gives an entry's file
FileName(e) ==
    CASE e.kind = "fwd" -> LidMappingPrefix \o e.key \o DotJson
      [] e.kind = "rev" -> LidMappingPrefix \o e.key \o ReverseDotJson
      [] OTHER -> e.key \o DotJson

EmptyMap == [x \in {} |-> Absent]

\* the socket argument: null, or a socket whose credentials hold a LID table
NoSock == [hasTable |-> FALSE, table |-> EmptyMap]
SockWith(lid, phone) == [hasTable |-> TRUE, table |-> [x \in {lid} |-> phone]]
Socks == {NoSock, SockWith(D10, P2), SockWith(LX, P1)}

-----------------------------------------------------------------------------
(* The identity cache *)

\* the module state the functions below read and write
CacheState == [l2p |-> lidToPhoneCache, p2l |-> phoneToLidCache,
               loaded |-> mappingsLoaded, watcher |-> fileWatcher,
               started |-> watchesStarted]

\* Map.prototype.set
MapSet(m, k, v) == [x \in (DOMAIN m) \cup {k} |-> IF x = k THEN v ELSE m[x]]

\* a slip: the phone -> LID direction is not written
SetBoth_ForwardOnly(c, lid, phone) == [c EXCEPT !.l2p = MapSet(c.l2p, lid, phone)]

\* lidToPhoneCache.set(lid, phone); phoneToLidCache.set(phone, lid)
SetBoth(c, lid, phone) ==
    [c EXCEPT !.l2p = MapSet(c.l2p, lid, phone), !.p2l = MapSet(c.p2l, phone, lid)]

\* what the directory holds, in readdir order: the credentials file and the mapping files
DirList == IF authDirExists THEN <<CredsEntry>> \o authFiles ELSE <<>>

\* fs.readdirSync(authDir): the names
Readdir == [i \in 1..Len(DirList) |-> FileName(DirList[i])]

\* file.startsWith('lid-mapping-') && !file.includes('_reverse')
IsForwardName(file) == StartsWith(file, LidMappingPrefix) /\ ~Includes(file, ReverseMark)

\* file.replace('lid-mapping-', '').replace('.json', '')
PhoneOfForwardName(file) ==
    ReplaceFirst(ReplaceFirst(file, LidMappingPrefix, EmptyStr), DotJson, EmptyStr)

\* file.replace('lid-mapping-', '').replace('_reverse.json', '')
LidOfReverseName(file) ==
    ReplaceFirst(ReplaceFirst(file, LidMappingPrefix, EmptyStr), ReverseDotJson, EmptyStr)

\* a slip: the reverse files are counted too
validateMappings_CountsReverse ==
    IF ~authDirExists
    THEN [valid |-> FALSE, authDirExists |-> FALSE, mappingCount |-> 0]
    ELSE [valid |-> TRUE, authDirExists |-> TRUE,
          mappingCount |->
              Cardinality({i \in 1..Len(DirList) : StartsWith(Readdir[i], LidMappingPrefix)})]

\* validateMappings(): the result record; it changes nothing
validateMappings ==
    IF ~authDirExists
    THEN [valid |-> FALSE, authDirExists |-> FALSE, mappingCount |-> 0]
    ELSE [valid |-> TRUE, authDirExists |-> TRUE,
          mappingCount |-> Cardinality({i \in 1..Len(DirList) : IsForwardName(Readdir[i])})]

\* a slip: no test of the handle, so every load starts another watch
watchMappingFiles_NoHandleTest(c, watchOk) ==
    IF ~authDirExists THEN c
    ELSE IF watchOk THEN [c EXCEPT !.watcher = "live", !.started = @ + 1] ELSE c

\* watchMappingFiles(): fs.watch may throw (watchOk = FALSE), which is caught
watchMappingFiles(c, watchOk) ==
    IF c.watcher # "none" \/ ~authDirExists THEN c
    ELSE IF watchOk THEN [c EXCEPT !.watcher = "live", !.started = @ + 1] ELSE c

\* the body of files.forEach in loadAllLidMappings, for the i-th entry; a file
\* that does not parse throws inside the per-file try and is skipped
LoadFile(c, i) ==
    LET file == Readdir[i]
        json == DirList[i].content
    IN  IF IsForwardName(file)
        THEN LET phoneNumber == PhoneOfForwardName(file)
             IN  IF ~json.ok THEN c
                 ELSE IF Truthy(json.val) /\ Truthy(phoneNumber)
                      THEN SetBoth(c, json.val, phoneNumber)
                      ELSE c
        ELSE IF Includes(file, ReverseDotJson)
        THEN LET lid == LidOfReverseName(file)
             IN  IF ~json.ok THEN c
                 ELSE IF Truthy(lid) /\ Truthy(json.val)
                      THEN SetBoth(c, lid, json.val)
                      ELSE c
        ELSE c

RECURSIVE LoadFiles(_, _)

\* a slip: one try around the whole loop, so a file that does not parse ends the load
LoadFiles_StopAtUnparsable(c, i) ==
    IF i > Len(DirList) THEN c
    ELSE IF DirList[i].kind # "other" /\ ~DirList[i].content.ok THEN c
    ELSE LoadFiles(LoadFile(c, i), i + 1)

\* files.forEach(...) from the i-th entry on
LoadFiles(c, i) ==
    IF i > Len(DirList) THEN c ELSE LoadFiles(LoadFile(c, i), i + 1)

\* a slip: the early return on mappingsLoaded is missing
loadAllLidMappings_Unguarded(c, watchOk) ==
    IF ~authDirExists THEN [c EXCEPT !.loaded = TRUE]
    ELSE watchMappingFiles([LoadFiles(c, 1) EXCEPT !.loaded = TRUE], watchOk)

\* loadAllLidMappings()
loadAllLidMappings(c, watchOk) ==
    IF c.loaded THEN c
    ELSE IF ~authDirExists THEN [c EXCEPT !.loaded = TRUE]
    ELSE watchMappingFiles([LoadFiles(c, 1) EXCEPT !.loaded = TRUE], watchOk)

\* a slip: the loaded flag is not reset, so the reload is a no-op
watchCallback_NoReset(c, filename, watchOk) ==
    IF Truthy(filename) /\ StartsWith(filename, LidMappingPrefix)
    THEN loadAllLidMappings(c, watchOk)
    ELSE c

\* the callback given to fs.watch, for one notification
watchCallback(c, filename, watchOk) ==
    IF Truthy(filename) /\ StartsWith(filename, LidMappingPrefix)
    THEN loadAllLidMappings([c EXCEPT !.loaded = FALSE], watchOk)
    ELSE c

-----------------------------------------------------------------------------
(* The identifier resolver *)

\* sock && sock.authState.creds.lid && mapping.mapping && mapping.mapping[lid]
SockHas(sock, lid) == sock.hasTable /\ lid \in DOMAIN sock.table /\ Truthy(sock.table[lid])

\* `lid-mapping-${lid}_reverse.json`
ReverseNameFor(lid) == LidMappingPrefix \o lid \o ReverseDotJson

\* fs.existsSync(reverseMappingFile)
ReverseExists(lid) == \E i \in 1..Len(DirList) : Readdir[i] = ReverseNameFor(lid)

ReverseContent(lid) ==
    DirList[CHOOSE i \in 1..Len(DirList) : Readdir[i] = ReverseNameFor(lid)].content

\* the for loop of strategy 4 from entry i on: "hit" with the phone, "miss" at the
\* end of the listing, "threw" when a forward file does not parse (the try is
\* around the whole loop)
RECURSIVE ScanForward(_, _)
ScanForward(lid, i) ==
    IF i > Len(DirList) THEN [out |-> "miss", phone |-> Absent]
    ELSE LET file == Readdir[i]
             json == DirList[i].content
         IN  IF IsForwardName(file)
             THEN IF ~json.ok THEN [out |-> "threw", phone |-> Absent]
                  ELSE IF json.val = lid
                       THEN [out |-> "hit", phone |-> PhoneOfForwardName(file)]
                       ELSE ScanForward(lid, i + 1)
             ELSE ScanForward(lid, i + 1)

\* strategy 4; readdirSync throws when the directory is missing
ForwardScan(lid) ==
    IF ~authDirExists THEN [out |-> "threw", phone |-> Absent] ELSE ScanForward(lid, 1)

Result(val, via, c, io) == [val |-> val, via |-> via, cache |-> c, io |-> io]

\* a slip: the heuristic result is not cached
HeuristicSet_Uncached(c, lid) == c

\* the heuristic fallback: only the LID -> phone direction is written
HeuristicSet(c, lid) == [c EXCEPT !.l2p = MapSet(c.l2p, lid, lid)]

\* strategies 4 and 5 and the failure, given what the scan of strategy 4 did
ScanOrHeuristic(c, lid, io, scan) ==
    IF scan.out = "hit"
    THEN Result(scan.phone, 4, SetBoth(c, lid, scan.phone), io)
    ELSE IF LooksLikePhone(lid)
    THEN Result(lid, 5, HeuristicSet(c, lid), io)
    ELSE Result(Absent, 0, c, io)

\* strategy 3 on the parsed reverse file
FromReverse(c, lid, io, phone) == Result(phone, 3, SetBoth(c, lid, phone), io)

\* strategies 2 to 5 and the failure, on a cache that holds nothing for lid
ResolveMiss(c, lid, sock, io) ==
    IF SockHas(sock, lid)
    THEN Result(sock.table[lid], 2, SetBoth(c, lid, sock.table[lid]), io)
    ELSE IF ReverseExists(lid) /\ ReverseContent(lid).ok
    THEN FromReverse(c, lid, io \cup {"reverse"}, ReverseContent(lid).val)
    ELSE ScanOrHeuristic(c, lid, io \cup {"reverse", "scan"}, ForwardScan(lid))

\* a slip: a cached value that is the LID itself is not taken for an answer
ResolveLoaded_VerifiedFirst(c1, io1, lid, sock) ==
    IF lid \in DOMAIN c1.l2p /\ c1.l2p[lid] # lid
    THEN Result(c1.l2p[lid], 1, c1, io1)
    ELSE ResolveMiss(c1, lid, sock, io1)

\* strategy 1 on the cache c1 as the lazy load left it, then the others
ResolveLoaded(c1, io1, lid, sock) ==
    IF lid \in DOMAIN c1.l2p
    THEN Result(c1.l2p[lid], 1, c1, io1)
    ELSE ResolveMiss(c1, lid, sock, io1)

\* resolveLidToPhoneNumber(lid, sock): the value returned, the strategy that gave
\* it (0: none), the cache afterwards and the file-system work done ("load": the
\* directory was loaded, "reverse": the reverse file was looked for, "scan": the
\* forward files were scanned)
resolveLidToPhoneNumber(c, lid, sock, watchOk) ==
    IF ~Truthy(lid) THEN Result(Absent, 0, c, {})
    ELSE ResolveLoaded(loadAllLidMappings(c, watchOk),
                       IF c.loaded THEN {} ELSE {"load"}, lid, sock)

-----------------------------------------------------------------------------
(* Identifier forms *)

JidResult(val, c) == [val |-> val, cache |-> c]

\* return resolved || null
ResolvedOrNull(r) == JidResult(IF Truthy(r.val) THEN r.val ELSE Absent, r.cache)

\* a slip: the raw LID stands in for the phone number when resolution fails
extractPhoneNumber_RawLid(c, jid, sock, watchOk) ==
    IF ~Truthy(jid) THEN JidResult(Absent, c)
    ELSE IF Includes(jid, LidSuffix)
    THEN JidResult(SplitHead(jid, "@"), c)
    ELSE IF EndsWith(jid, DirectSuffix)
    THEN JidResult(ReplaceFirst(jid, DirectSuffix, EmptyStr), c)
    ELSE IF EndsWith(jid, GroupSuffix)
    THEN JidResult(SplitHead(SplitHead(jid, "@"), "-"), c)
    ELSE IF LeadingDigits(jid) # EmptyStr THEN JidResult(LeadingDigits(jid), c)
    ELSE JidResult(Absent, c)

\* extractPhoneNumber(jid, sock): the phone number (or Absent) and the cache afterwards
extractPhoneNumber(c, jid, sock, watchOk) ==
    IF ~Truthy(jid) THEN JidResult(Absent, c)
    ELSE IF Includes(jid, LidSuffix)
    THEN ResolvedOrNull(resolveLidToPhoneNumber(c, SplitHead(jid, "@"), sock, watchOk))
    ELSE IF EndsWith(jid, DirectSuffix)
    THEN JidResult(ReplaceFirst(jid, DirectSuffix, EmptyStr), c)
    ELSE IF EndsWith(jid, GroupSuffix)
    THEN JidResult(SplitHead(SplitHead(jid, "@"), "-"), c)
    ELSE IF LeadingDigits(jid) # EmptyStr THEN JidResult(LeadingDigits(jid), c)
    ELSE JidResult(Absent, c)

\* a slip: the local part of any identifier is given as its LID
extractLid_AnyLocalPart(jid) ==
    IF ~Truthy(jid) THEN Absent ELSE SplitHead(jid, "@")

\* extractLid(jid)
extractLid(jid) ==
    IF ~Truthy(jid) THEN Absent
    ELSE IF Includes(jid, LidSuffix) THEN SplitHead(jid, "@")
    ELSE Absent

\* `${phoneNumber}@s.whatsapp.net` when there is a phone number, else null
DirectJidOrNull(r) ==
    JidResult(IF Truthy(r.val) THEN r.val \o DirectSuffix ELSE Absent, r.cache)

\* a slip: an identifier is passed through as it came
normalizeToWhatsAppJid_PassThrough(c, jid, sock, watchOk) ==
    IF ~Truthy(jid) THEN JidResult(Absent, c)
    ELSE JidResult(jid, c)

\* normalizeToWhatsAppJid(jid, sock); the LID branch and the unknown-format branch
\* do the same
normalizeToWhatsAppJid(c, jid, sock, watchOk) ==
    IF ~Truthy(jid) THEN JidResult(Absent, c)
    ELSE IF EndsWith(jid, DirectSuffix) THEN JidResult(jid, c)
    ELSE IF EndsWith(jid, GroupSuffix) THEN JidResult(jid, c)
    ELSE DirectJidOrNull(extractPhoneNumber(c, jid, sock, watchOk))

-----------------------------------------------------------------------------
(* Raw messages *)

\* a scalar field that is missing (undefined), and null
U == "<undefined>"
NullS == "<null>"

\* x || y for a scalar
OrElse(x, y) == IF x = U \/ x = NullS \/ x = "" THEN y ELSE x

\* one key of a content block with its value
E(k, v) == [k |-> k, v |-> v]

\* messageContent[k] is there / its value (a content block lists its keys in
\* insertion order, which is the order of Object.keys)
HasKey(m, k) == \E i \in 1..Len(m) : m[i].k = k
ValOf(m, k) == m[CHOOSE i \in 1..Len(m) : m[i].k = k].v

\* if (messageContent[k]): an object is truthy, a string unless it is empty
KeyTruthy(m, k) == HasKey(m, k) /\ (k = "conversation" => ValOf(m, k).text # "")

\* an optional sub-object or array: missing, or there with its value
Missing == [present |-> FALSE, v |-> <<>>]
Some(x) == [present |-> TRUE, v |-> <<x>>]
Get(o) == o.v[1]

\* extractQuotedContent(quotedMsg)
extractQuotedContent(q) ==
    IF KeyTruthy(q, "conversation") THEN ValOf(q, "conversation").text
    ELSE IF KeyTruthy(q, "extendedTextMessage") THEN ValOf(q, "extendedTextMessage").text
    ELSE IF KeyTruthy(q, "imageMessage") THEN OrElse(ValOf(q, "imageMessage").caption, "[Image]")
    ELSE IF KeyTruthy(q, "videoMessage") THEN OrElse(ValOf(q, "videoMessage").caption, "[Video]")
    ELSE IF KeyTruthy(q, "audioMessage") THEN "[Audio]"
    ELSE IF KeyTruthy(q, "documentMessage")
         THEN OrElse(ValOf(q, "documentMessage").fileName, "[Document]")
    ELSE IF KeyTruthy(q, "stickerMessage") THEN "[Sticker]"
    ELSE IF KeyTruthy(q, "locationMessage") THEN "[Location]"
    ELSE IF KeyTruthy(q, "contactMessage") THEN "[Contact]"
    ELSE "[Unknown]"

-----------------------------------------------------------------------------
(* The message normalizer *)

MsPerSecond == 1000

\* a slip: every record is flagged as carrying media
Returned_AllMedia(n, c) ==
    [threw |-> FALSE, norm |-> <<[n EXCEPT !.hasMedia = TRUE]>>, cache |-> c]

\* the outcome of normalizeMessage: it returned the record norm[1], or it threw;
\* either way the cache is as the resolutions made so far left it
Returned(n, c) == [threw |-> FALSE, norm |-> <<n>>, cache |-> c]
Threw(c) == [threw |-> TRUE, norm |-> <<>>, cache |-> c]

\* the values resolved so far, in order, and the cache as the last one left it
Resolved(c) == [val |-> <<>>, cache |-> c]
Put(acc, r) == [val |-> Append(acc.val, r.val), cache |-> r.cache]

\* one call of the map callback: jid => extractPhoneNumber(jid, sock)
MapStep(acc, jid, sock, watchOk) ==
    Put(acc, extractPhoneNumber(acc.cache, jid, sock, watchOk))

\* mentionedJids.map(jid => extractPhoneNumber(jid, sock)), from the i-th on
RECURSIVE MapPhones(_, _, _, _, _)
MapPhones(acc, jids, i, sock, watchOk) ==
    IF i > Len(jids) THEN acc
    ELSE MapPhones(MapStep(acc, jids[i], sock, watchOk), jids, i + 1, sock, watchOk)

\* .filter(x => x !== null)
NotNull(x) == x # Absent
FilterNull(list) == SelectSeq(list, NotNull)

\* if (contextInfo?.quotedMessage) / if (contextInfo?.mentionedJid)
HasQuoted(ci) == ci.present /\ Get(ci).quotedMessage.present
HasMentions(ci) == ci.present /\ Get(ci).mentionedJid.present
MentionedJids(ci) == IF HasMentions(ci) THEN Get(Get(ci).mentionedJid) ELSE <<>>

\* participant: extractPhoneNumber(contextInfo.participant, sock) of the quoted message
QuotedParticipant(c, ci, sock, watchOk) ==
    IF HasQuoted(ci) THEN extractPhoneNumber(c, Get(ci).participant, sock, watchOk)
    ELSE JidResult(Absent, c)

\* the fields of the extendedTextMessage branch, given the quoted participant qp
\* and the mapped mentions
ExtendedFields(n, v, qp, phones) ==
    LET ci   == v.contextInfo
        jids == MentionedJids(ci)
    IN  Returned([n EXCEPT !.messageType = "text",
                           !.content = v.text,
                           !.quotedMessage =
                               IF HasQuoted(ci)
                               THEN <<[messageId      |-> Get(ci).stanzaId,
                                       participant    |-> qp.val,
                                       participantLid |-> extractLid(Get(ci).participant),
                                       participantJid |-> Get(ci).participant,
                                       content        |->
                                           extractQuotedContent(Get(Get(ci).quotedMessage))]>>
                               ELSE <<>>,
                           !.mentions = FilterNull(phones.val),
                           !.mentionLids =
                               FilterNull([i \in 1..Len(jids) |-> extractLid(jids[i])])],
                 phones.cache)

\* the mentions are mapped after the quoted participant is resolved
ExtendedMentions(n, v, qp, sock, watchOk) ==
    ExtendedFields(n, v, qp,
                   MapPhones(Resolved(qp.cache), MentionedJids(v.contextInfo), 1, sock, watchOk))

\* the extendedTextMessage branch
ExtendedText(n, c, v, sock, watchOk) ==
    ExtendedMentions(n, v, QuotedParticipant(c, v.contextInfo, sock, watchOk), sock, watchOk)

\* the chain of if / else if over the content block
NormalizeContent(n, c, m, sock, watchOk) ==
    IF KeyTruthy(m, "conversation")
    THEN Returned([n EXCEPT !.messageType = "text",
                            !.content = ValOf(m, "conversation").text], c)
    ELSE IF KeyTruthy(m, "extendedTextMessage")
    THEN ExtendedText(n, c, ValOf(m, "extendedTextMessage"), sock, watchOk)
    ELSE IF KeyTruthy(m, "imageMessage")
    THEN LET v == ValOf(m, "imageMessage")
         IN  Returned([n EXCEPT !.messageType = "image", !.hasMedia = TRUE,
                                !.caption = OrElse(v.caption, NullS),
                                !.mimeType = v.mimetype, !.fileSize = v.fileLength,
                                !.mediaUrl = OrElse(v.url, NullS)], c)
    ELSE IF KeyTruthy(m, "videoMessage")
    THEN LET v == ValOf(m, "videoMessage")
         IN  Returned([n EXCEPT !.messageType = "video", !.hasMedia = TRUE,
                                !.caption = OrElse(v.caption, NullS),
                                !.mimeType = v.mimetype, !.fileSize = v.fileLength,
                                !.duration = v.seconds,
                                !.mediaUrl = OrElse(v.url, NullS)], c)
    ELSE IF KeyTruthy(m, "audioMessage")
    THEN LET v == ValOf(m, "audioMessage")
         IN  Returned([n EXCEPT !.messageType = IF v.ptt THEN "voice" ELSE "audio",
                                !.hasMedia = TRUE,
                                !.mimeType = v.mimetype, !.fileSize = v.fileLength,
                                !.duration = v.seconds,
                                !.mediaUrl = OrElse(v.url, NullS)], c)
    ELSE IF KeyTruthy(m, "documentMessage")
    THEN LET v == ValOf(m, "documentMessage")
         IN  Returned([n EXCEPT !.messageType = "document", !.hasMedia = TRUE,
                                !.fileName = v.fileName,
                                !.mimeType = v.mimetype, !.fileSize = v.fileLength,
                                !.caption = OrElse(v.caption, NullS),
                                !.mediaUrl = OrElse(v.url, NullS)], c)
    ELSE IF KeyTruthy(m, "stickerMessage")
    THEN LET v == ValOf(m, "stickerMessage")
         IN  Returned([n EXCEPT !.messageType = "sticker", !.hasMedia = TRUE,
                                !.mimeType = v.mimetype, !.fileSize = v.fileLength,
                                !.mediaUrl = OrElse(v.url, NullS)], c)
    ELSE IF KeyTruthy(m, "locationMessage")
    THEN LET v == ValOf(m, "locationMessage")
         IN  Returned([n EXCEPT !.messageType = "location",
                                !.location = <<[latitude  |-> v.degreesLatitude,
                                                longitude |-> v.degreesLongitude,
                                                name      |-> OrElse(v.name, NullS),
                                                address   |-> OrElse(v.address, NullS)]>>], c)
    ELSE IF KeyTruthy(m, "contactMessage")
    THEN LET v == ValOf(m, "contactMessage")
         IN  Returned([n EXCEPT !.messageType = "contact",
                                !.contacts = Some(<<[displayName |-> v.displayName,
                                                     vcard       |-> v.vcard]>>)], c)
    ELSE IF KeyTruthy(m, "contactsArrayMessage")
    THEN LET v == ValOf(m, "contactsArrayMessage")
         IN  IF ~v.contacts.present THEN Threw(c)
             ELSE Returned([n EXCEPT !.messageType = "contacts",
                                     !.contacts = v.contacts], c)
    ELSE IF KeyTruthy(m, "pollCreationMessage")
    THEN LET v == ValOf(m, "pollCreationMessage")
         IN  IF ~v.options.present THEN Threw(c)
             ELSE Returned([n EXCEPT !.messageType = "poll",
                                     !.pollData = <<[name            |-> v.name,
                                                     options         |-> Get(v.options),
                                                     selectableCount |-> v.selectableOptionsCount]>>], c)
    ELSE IF KeyTruthy(m, "reactionMessage")
    THEN LET v == ValOf(m, "reactionMessage")
         IN  IF ~v.key.present THEN Threw(c)
             ELSE Returned([n EXCEPT !.messageType = "reaction",
                                     !.reactionData = <<[emoji           |-> v.text,
                                                         targetMessageId |-> Get(v.key)]>>], c)
    ELSE Returned([n EXCEPT !.messageType = "unsupported",
                            !.content = IF Len(m) > 0 THEN m[1].k ELSE U], c)

\* from / fromJid / participant / participantJid, resolved in this order
FromField(c, remote, sock, watchOk) ==
    Put(Resolved(c), extractPhoneNumber(c, remote, sock, watchOk))
FromJidField(acc, remote, sock, watchOk) ==
    Put(acc, normalizeToWhatsAppJid(acc.cache, remote, sock, watchOk))
\* a slip: the participant is taken from what the sender identifier gave
ParticipantField_FromSender(acc, part, sock, watchOk) ==
    Put(acc, JidResult(IF Truthy(part) THEN acc.val[1] ELSE Absent, acc.cache))

ParticipantField(acc, part, sock, watchOk) ==
    Put(acc, IF Truthy(part) THEN extractPhoneNumber(acc.cache, part, sock, watchOk)
             ELSE JidResult(Absent, acc.cache))
ParticipantJidField(acc, part, sock, watchOk) ==
    Put(acc, IF Truthy(part) THEN normalizeToWhatsAppJid(acc.cache, part, sock, watchOk)
             ELSE JidResult(Absent, acc.cache))
IdentityFields(c, remote, part, sock, watchOk) ==
    ParticipantJidField(
        ParticipantField(
            FromJidField(FromField(c, remote, sock, watchOk), remote, sock, watchOk),
            part, sock, watchOk),
        part, sock, watchOk)

\* the record as the object literal builds it, given the identity fields
Literal(ids, msg, now) ==
    LET remote == msg.key.remoteJid
        part   == msg.key.participant
    IN  [messageId         |-> msg.key.id,
         timestamp         |-> IF msg.messageTimestamp # 0
                               THEN msg.messageTimestamp * MsPerSecond ELSE now,
         from              |-> ids.val[1],
         fromLid           |-> extractLid(remote),
         fromJid           |-> ids.val[2],
         fromJidRaw        |-> remote,
         fromMe            |-> msg.key.fromMe,
         participant       |-> ids.val[3],
         participantLid    |-> IF Truthy(part) THEN extractLid(part) ELSE Absent,
         participantJid    |-> ids.val[4],
         participantJidRaw |-> IF Truthy(part) THEN part ELSE Absent,
         isGroup           |-> EndsWith(remote, GroupSuffix),
         messageType       |-> NullS,
         content           |-> NullS,
         caption           |-> NullS,
         quotedMessage     |-> <<>>,
         mentions          |-> <<>>,
         mentionLids       |-> <<>>,
         hasMedia          |-> FALSE,
         mediaUrl          |-> NullS,
         mimeType          |-> NullS,
         fileName          |-> NullS,
         fileSize          |-> NullS,
         duration          |-> NullS,
         location          |-> <<>>,
         contacts          |-> Missing,
         pollData          |-> <<>>,
         reactionData      |-> <<>>,
         rawMessage        |-> IF msg.message.present THEN Get(msg.message) ELSE <<>>]

\* the rest of normalizeMessage once the identity fields are resolved;
\* remoteJid.endsWith throws when there is no remoteJid
Normalized(ids, msg, sock, watchOk, now) ==
    IF msg.key.remoteJid = Absent THEN Threw(ids.cache)
    ELSE IF ~msg.message.present
    THEN Returned([Literal(ids, msg, now) EXCEPT !.messageType = "unknown"], ids.cache)
    ELSE NormalizeContent(Literal(ids, msg, now), ids.cache, Get(msg.message), sock, watchOk)

\* normalizeMessage(msg, sock); now is Date.now()
normalizeMessage(c, msg, sock, watchOk, now) ==
    Normalized(IdentityFields(c, msg.key.remoteJid, msg.key.participant, sock, watchOk),
               msg, sock, watchOk, now)

-----------------------------------------------------------------------------
(* The raw messages the protocol client delivers *)

BroadcastSuffix == <<"@", "b", "r", "o", "a", "d", "c", "a", "s", "t">>
GroupLocal == <<"6", "2", "8", "1", "-", "7", "7">>
GroupJid == GroupLocal \o GroupSuffix
StatusJid == <<"s", "t", "a", "t", "u", "s">> \o BroadcastSuffix

\* sender identifiers: missing, empty, LID form, direct form, group form, others
RemoteJids == {Absent, EmptyStr, D10 \o LidSuffix, LX \o LidSuffix, P1 \o DirectSuffix,
               GroupJid, StatusJid, P1 \o BroadcastSuffix}
ParticipantJids == {Absent, D10 \o LidSuffix, LX \o LidSuffix, P2 \o DirectSuffix}

NoContext == Missing
Context(quoted, participant, mentioned) ==
    Some([quotedMessage |-> quoted, participant |-> participant,
          stanzaId |-> "Q1", mentionedJid |-> mentioned])

Media == [caption |-> "pic", mimetype |-> "image/jpeg", fileLength |-> "1024",
          url |-> "https://m/1", seconds |-> "12", ptt |-> FALSE, fileName |-> "a.pdf"]
BareMedia == [caption |-> U, mimetype |-> U, fileLength |-> U,
              url |-> U, seconds |-> U, ptt |-> FALSE, fileName |-> U]
Place == [degreesLatitude |-> "-6.2", degreesLongitude |-> "106.8", name |-> "Monas", address |-> U]
Card == [displayName |-> "Ann", vcard |-> "BEGIN:VCARD"]

\* content blocks: every recognized key, recognized keys with missing
\* sub-fields, several keys at once, an unrecognized key, an empty block
ContentBlocks ==
    { <<E("conversation", [text |-> "hi"])>>,
      <<E("conversation", [text |-> ""])>>,
      <<E("imageMessage", Media), E("conversation", [text |-> "hi"])>>,
      <<E("senderKeyDistributionMessage", [x |-> U]), E("conversation", [text |-> "hi"])>>,
      <<E("extendedTextMessage", [text |-> "yo", contextInfo |-> NoContext])>>,
      <<E("extendedTextMessage",
          [text |-> "re", contextInfo |->
              Context(Some(<<E("imageMessage", BareMedia)>>), LX \o LidSuffix, Missing)])>>,
      <<E("extendedTextMessage",
          [text |-> "re", contextInfo |->
              Context(Some(<<E("conversation", [text |-> "hi"])>>), Absent, Missing)])>>,
      <<E("extendedTextMessage",
          [text |-> "@all", contextInfo |->
              Context(Missing, Absent,
                      Some(<<D10 \o LidSuffix, LX \o LidSuffix, P1 \o DirectSuffix>>))])>>,
      <<E("extendedTextMessage",
          [text |-> "@one", contextInfo |->
              Context(Missing, Absent, Some(<<StatusJid, P2 \o DirectSuffix>>))])>>,
      <<E("imageMessage", Media)>>,
      <<E("imageMessage", BareMedia)>>,
      <<E("videoMessage", Media)>>,
      <<E("audioMessage", Media)>>,
      <<E("audioMessage", [Media EXCEPT !.ptt = TRUE])>>,
      <<E("documentMessage", Media)>>,
      <<E("stickerMessage", Media)>>,
      <<E("stickerMessage", Media), E("imageMessage", Media)>>,
      <<E("locationMessage", Place)>>,
      <<E("contactMessage", Card)>>,
      <<E("contactsArrayMessage", [contacts |-> Some(<<Card, Card>>)])>>,
      <<E("contactsArrayMessage", [contacts |-> Missing])>>,
      <<E("pollCreationMessage",
          [name |-> "lunch", options |-> Some(<<"a", "b">>), selectableOptionsCount |-> "1"])>>,
      <<E("pollCreationMessage",
          [name |-> "lunch", options |-> Missing, selectableOptionsCount |-> U])>>,
      <<E("reactionMessage", [text |-> "+1", key |-> Some("M0")])>>,
      <<E("reactionMessage", [text |-> "+1", key |-> Missing])>>,
      <<E("fooMessage", [x |-> U])>>,
      <<E("fooMessage", [x |-> U]), E("imageMessage", Media)>>,
      <<>> }

Msg(id, remote, participant, ts, content) ==
    [key |-> [id |-> id, remoteJid |-> remote, fromMe |-> FALSE, participant |-> participant],
     messageTimestamp |-> ts,
     message |-> content]

\* a plain text from every sender identifier and from every participant of a
\* group, every content block from a direct sender, one message without a
\* content block and one without a timestamp
Hi == Some(<<E("conversation", [text |-> "hi"])>>)
Messages ==
    {Msg("M1", r, Absent, 17, Hi) : r \in RemoteJids}
    \cup {Msg("M1", GroupJid, q, 17, Hi) : q \in ParticipantJids}
    \cup {Msg("M2", P1 \o DirectSuffix, Absent, 17, Some(b)) : b \in ContentBlocks}
    \cup {Msg("M4", D10 \o LidSuffix, Absent, 17, Missing),
          Msg("M5", LX \o LidSuffix, Absent, 0, Missing)}

\* Date.now()
Clock == {99000}

\* the directory as the normalizer finds it
Scene(exists, files) == [exists |-> exists, files |-> files]
Fwd(p, content) == [kind |-> "fwd", key |-> p, content |-> content]
Rev(l, content) == [kind |-> "rev", key |-> l, content |-> content]
NormScenes ==
    { Scene(FALSE, <<>>),
      Scene(TRUE, <<>>),
      Scene(TRUE, <<Fwd(P1, Parsed(D10))>>),
      Scene(TRUE, <<Rev(D10, Parsed(P2))>>),
      Scene(TRUE, <<Fwd(P2, Unparsable), Fwd(P1, Parsed(LX))>>) }

\* the identifiers a message carries: sender, participant, quoted participant
\* and mentions
QuotedAndMentioned(m) ==
    IF ~m.message.present THEN {}
    ELSE LET b == Get(m.message)
         IN  IF ~HasKey(b, "extendedTextMessage") THEN {}
             ELSE LET ci == ValOf(b, "extendedTextMessage").contextInfo
                  IN  IF ~ci.present THEN {}
                      ELSE {Get(ci).participant}
                           \cup IF Get(ci).mentionedJid.present
                                THEN {Get(Get(ci).mentionedJid)[i] :
                                         i \in 1..Len(Get(Get(ci).mentionedJid))}
                                ELSE {}
Carries(m, jid) ==
    jid \in {m.key.remoteJid, m.key.participant} \cup QuotedAndMentioned(m)

\* a message arrives over a socket: one without a LID table, or one whose table
\* knows a LID the message carries
Deliveries ==
    {[msg |-> m, sock |-> NoSock] : m \in Messages}
    \cup {[msg |-> m, sock |-> SockWith(LX, P1)] :
             m \in {x \in Messages : Carries(x, LX \o LidSuffix)}}

-----------------------------------------------------------------------------
(* The state machine of the cache, the resolver and their environment *)

\* the record of the last operation: its argument(s), the value it returned, the
\* strategy that gave it and the file-system work it did
NoOp == [op |-> "init", arg |-> Absent, sock |-> NoSock, val |-> Absent, via |-> 0, io |-> {}]

\* the state of whatsapp.js once the module is loaded and connectToWhatsApp() was
\* called for the first time
AppInit ==
    /\ webhookUrl = TRUE
    /\ processedMessages = {}
    /\ processedOthers = 0
    /\ upserts = <<>>
    /\ handlers = <<>>
    /\ events = {}
    /\ postedSinceClear = {}
    /\ qrCodeData = NullS
    /\ connects = 1

HookUnchanged ==
    UNCHANGED <<webhookUrl, processedMessages, processedOthers, upserts, handlers, events,
                postedSinceClear>>
ConnUnchanged == UNCHANGED <<qrCodeData, connects>>
AppUnchanged == HookUnchanged /\ ConnUnchanged

Init ==
    /\ authDirExists \in BOOLEAN
    /\ authFiles = <<>>
    /\ lidToPhoneCache = EmptyMap
    /\ phoneToLidCache = EmptyMap
    /\ mappingsLoaded = FALSE
    /\ fileWatcher = "none"
    /\ watchesStarted = 0
    /\ pending = <<>>
    /\ AppInit
    /\ last = NoOp

SetCache(c) ==
    /\ lidToPhoneCache' = c.l2p
    /\ phoneToLidCache' = c.p2l
    /\ mappingsLoaded' = c.loaded
    /\ fileWatcher' = c.watcher
    /\ watchesStarted' = c.started

EnvUnchanged == UNCHANGED <<authDirExists, authFiles, pending>>
CodeUnchanged ==
    UNCHANGED <<lidToPhoneCache, phoneToLidCache, mappingsLoaded, fileWatcher, watchesStarted>>

\* a change of the directory is notified to a live watch
Notify(name) ==
    pending' = IF fileWatcher = "live" THEN Append(pending, name) ELSE pending

CanNotify == fileWatcher = "live" => Len(pending) < MaxPending

InsertAt(s, i, e) == SubSeq(s, 1, i - 1) \o <<e>> \o SubSeq(s, i, Len(s))
RemoveAt(s, i) == SubSeq(s, 1, i - 1) \o SubSeq(s, i + 1, Len(s))

\* the protocol client (or anything else) creates the directory
EnvCreateDir ==
    /\ ~authDirExists
    /\ authDirExists' = TRUE
    /\ AppUnchanged
    /\ last' = [NoOp EXCEPT !.op = "env"]
    /\ UNCHANGED <<authFiles, pending>>
    /\ CodeUnchanged

\* the directory is removed with all it holds; a watch on it is dead from then on
EnvRemoveDir ==
    /\ authDirExists
    /\ authDirExists' = FALSE
    /\ authFiles' = <<>>
    /\ fileWatcher' = IF fileWatcher = "live" THEN "dead" ELSE fileWatcher
    /\ AppUnchanged
    /\ last' = [NoOp EXCEPT !.op = "env"]
    /\ UNCHANGED <<pending, lidToPhoneCache, phoneToLidCache, mappingsLoaded, watchesStarted>>

\* a new mapping file appears at some place of the listing
EnvCreateFile ==
    /\ authDirExists
    /\ Len(authFiles) < MaxFiles
    /\ CanNotify
    /\ \E e \in Entries, i \in 1..(Len(authFiles) + 1) :
          /\ \A j \in 1..Len(authFiles) : FileName(authFiles[j]) # FileName(e)
          /\ authFiles' = InsertAt(authFiles, i, e)
          /\ Notify(FileName(e))
    /\ AppUnchanged
    /\ last' = [NoOp EXCEPT !.op = "env"]
    /\ UNCHANGED authDirExists
    /\ CodeUnchanged

\* a mapping file is rewritten in place
EnvRewriteFile ==
    /\ authDirExists
    /\ CanNotify
    /\ \E i \in 1..Len(authFiles), e \in Entries :
          /\ FileName(e) = FileName(authFiles[i])
          /\ e # authFiles[i]
          /\ authFiles' = [authFiles EXCEPT ![i] = e]
          /\ Notify(FileName(e))
    /\ AppUnchanged
    /\ last' = [NoOp EXCEPT !.op = "env"]
    /\ UNCHANGED authDirExists
    /\ CodeUnchanged

\* a mapping file is deleted
EnvDeleteFile ==
    /\ authDirExists
    /\ CanNotify
    /\ \E i \in 1..Len(authFiles) :
          /\ authFiles' = RemoveAt(authFiles, i)
          /\ Notify(FileName(authFiles[i]))
    /\ AppUnchanged
    /\ last' = [NoOp EXCEPT !.op = "env"]
    /\ UNCHANGED authDirExists
    /\ CodeUnchanged

\* the protocol client rewrites its credentials file
EnvTouchCreds ==
    /\ authDirExists
    /\ fileWatcher = "live"
    /\ Len(pending) < MaxPending
    /\ pending' = Append(pending, FileName(CredsEntry))
    /\ AppUnchanged
    /\ last' = [NoOp EXCEPT !.op = "env"]
    /\ UNCHANGED <<authDirExists, authFiles>>
    /\ CodeUnchanged

\* whether fs.watch succeeds matters only where it would be called
WatchOutcomes == IF fileWatcher = "none" /\ authDirExists THEN BOOLEAN ELSE {TRUE}

\* validateMappings()
Validate ==
    /\ AppUnchanged
    /\ last' = [NoOp EXCEPT !.op = "validate",
                            !.val = <<IF validateMappings.authDirExists THEN "1" ELSE "0",
                                      IF validateMappings.valid THEN "1" ELSE "0">>,
                            !.via = validateMappings.mappingCount]
    /\ EnvUnchanged
    /\ CodeUnchanged

\* preloadLidMappings()
Preload ==
    \E watchOk \in WatchOutcomes :
       /\ SetCache(loadAllLidMappings(CacheState, watchOk))
       /\ AppUnchanged
       /\ last' = [NoOp EXCEPT !.op = "load", !.io = IF mappingsLoaded THEN {} ELSE {"load"}]
       /\ EnvUnchanged

\* the call resolveLidToPhoneNumber(lid, sock) ends with the result r
Resolves(r, lid, sock) ==
    /\ SetCache(r.cache)
    /\ AppUnchanged
    /\ last' = [op |-> "resolve", arg |-> lid, sock |-> sock,
                 val |-> r.val, via |-> r.via, io |-> r.io]

\* resolveLidToPhoneNumber(lid, sock), for the LIDs of S
ResolveIn(S, SS) ==
    \E lid \in S, sock \in SS, watchOk \in WatchOutcomes :
       /\ Resolves(resolveLidToPhoneNumber(CacheState, lid, sock, watchOk), lid, sock)
       /\ EnvUnchanged

Resolve == ResolveIn(StoredLids, Socks)

\* the watch callback runs for the oldest queued notification
WatchEvent ==
    /\ pending # <<>>
    /\ \E watchOk \in WatchOutcomes :
          SetCache(watchCallback(CacheState, Head(pending), watchOk))
    /\ pending' = Tail(pending)
    /\ AppUnchanged
    /\ last' = [NoOp EXCEPT !.op = "watch", !.arg = Head(pending)]
    /\ UNCHANGED <<authDirExists, authFiles>>

Next ==
    \/ EnvCreateDir
    \/ EnvRemoveDir
    \/ EnvCreateFile
    \/ EnvRewriteFile
    \/ EnvDeleteFile
    \/ EnvTouchCreds
    \/ Validate
    \/ Preload
    \/ Resolve
    \/ WatchEvent

Spec == Init /\ [][Next]_vars

-----------------------------------------------------------------------------
(* The normalizer at work: messages arrive over a directory that stays as it is *)

\* the cache is fresh, or was loaded while the directory was not there yet (no
\* watch, nothing read), before the directory took its present shape
InitNorm ==
    /\ \E sc \in NormScenes :
          /\ authDirExists = sc.exists
          /\ authFiles = sc.files
    /\ lidToPhoneCache = EmptyMap
    /\ phoneToLidCache = EmptyMap
    /\ mappingsLoaded \in BOOLEAN
    /\ fileWatcher = "none"
    /\ watchesStarted = 0
    /\ pending = <<>>
    /\ AppInit
    /\ last = NoOp

\* the call normalizeMessage(msg, sock) ends with the outcome r
Normalizes(r, msg, sock) ==
    /\ SetCache(r.cache)
    /\ AppUnchanged
    /\ last' = [op |-> "normalize", arg |-> msg, sock |-> sock, val |-> Absent,
                 via |-> 0, io |-> {}, threw |-> r.threw, norm |-> r.norm]

\* normalizeMessage(msg, sock)
NormalizeMessage ==
    \E d \in Deliveries, watchOk \in WatchOutcomes, now \in Clock :
       /\ Normalizes(normalizeMessage(CacheState, d.msg, d.sock, watchOk, now), d.msg, d.sock)
       /\ EnvUnchanged

NextNorm == NormalizeMessage

SpecNorm == InitNorm /\ [][NextNorm]_vars

-----------------------------------------------------------------------------
(* The resolver where there is no backing directory and no socket table *)

TablelessSocks == {NoSock, [hasTable |-> TRUE, table |-> EmptyMap]}

InitNoDir ==
    /\ authDirExists = FALSE
    /\ authFiles = <<>>
    /\ lidToPhoneCache = EmptyMap
    /\ phoneToLidCache = EmptyMap
    /\ mappingsLoaded = FALSE
    /\ fileWatcher = "none"
    /\ watchesStarted = 0
    /\ pending = <<>>
    /\ AppInit
    /\ last = NoOp

ResolveNoDir == ResolveIn(AllLids, TablelessSocks)

NextNoDir ==
    \/ Validate
    \/ Preload
    \/ ResolveNoDir

SpecNoDir == InitNoDir /\ [][NextNoDir]_vars

-----------------------------------------------------------------------------
(* What the backing directory says, read off its entries *)

\* the directory holds a well-formed forward file of phone p naming LID l
FwdHolds(l, p) ==
    /\ authDirExists
    /\ \E i \in 1..Len(authFiles) :
          authFiles[i] = [kind |-> "fwd", key |-> p, content |-> Parsed(l)]

\* the directory holds a well-formed reverse file of LID l naming phone p
RevHolds(l, p) ==
    /\ authDirExists
    /\ \E i \in 1..Len(authFiles) :
          authFiles[i] = [kind |-> "rev", key |-> l, content |-> Parsed(p)]

\* the directory maps l to a phone other than p, or p to a LID other than l
LidMappedElsewhere(l, p) ==
    \E q \in Phones : q # p /\ (FwdHolds(l, q) \/ RevHolds(l, q))
PhoneMappedElsewhere(l, p) ==
    \E k \in ReverseLids : k # l /\ RevHolds(k, p)

\* the last step ran the directory load: preload on an unloaded cache, or the
\* watch callback for a mapping file
LoadJustRan ==
    \/ last.op = "load" /\ "load" \in last.io
    \/ last.op = "watch" /\ StartsWith(last.arg, LidMappingPrefix)

-----------------------------------------------------------------------------
(* Claims on the cache and the resolver *)

\* C1: the cache is symmetric in every reachable state: the LID -> phone map
\* holds (l, p) if and only if the phone -> LID map holds (p, l).
CacheSymmetric ==
    /\ \A l \in DOMAIN lidToPhoneCache :
          /\ lidToPhoneCache[l] \in DOMAIN phoneToLidCache
          /\ phoneToLidCache[lidToPhoneCache[l]] = l
    /\ \A p \in DOMAIN phoneToLidCache :
          /\ phoneToLidCache[p] \in DOMAIN lidToPhoneCache
          /\ lidToPhoneCache[phoneToLidCache[p]] = p

\* the first strategy that holds a mapping for lid, given the cache after the
\* lazy load: 1 cache, 2 socket table, 3 reverse file of this LID, 4 a forward
\* file naming this LID, 5 the 10-15 digit pattern, 0 none
FirstHolding(c1, lid, sock) ==
    IF lid \in DOMAIN c1.l2p THEN 1
    ELSE IF sock.hasTable /\ lid \in DOMAIN sock.table THEN 2
    ELSE IF \E p \in Phones : RevHolds(lid, p) THEN 3
    ELSE IF \E p \in Phones : FwdHolds(lid, p) THEN 4
    ELSE IF Len(lid) \in 10..15 /\ (\A j \in 1..Len(lid) : lid[j] \in Digits) THEN 5
    ELSE 0

\* the values that strategy holds for lid
ValuesHeld(c1, lid, sock, n) ==
    CASE n = 1 -> {c1.l2p[lid]}
      [] n = 2 -> {sock.table[lid]}
      [] n = 3 -> {p \in Phones : RevHolds(lid, p)}
      [] n = 4 -> {p \in Phones : FwdHolds(lid, p)}
      [] n = 5 -> {lid}
      [] OTHER -> {Absent}

\* C2: resolve(lid) returns the value of the first strategy, in the order cache,
\* socket table, reverse file, forward scan, digit heuristic, that holds a mapping
\* for the LID at the time of the call; a later strategy's value is never
\* returned. Stated of a call made in any reachable state, with any socket.
StrategyOrder ==
    \A lid \in StoredLids, sock \in Socks, watchOk \in WatchOutcomes :
       LET c1 == loadAllLidMappings(CacheState, watchOk)
           r  == resolveLidToPhoneNumber(CacheState, lid, sock, watchOk)
           n  == FirstHolding(c1, lid, sock)
       IN  r.via = n /\ r.val \in ValuesHeld(c1, lid, sock, n)

\* the second of two calls resolve(lid) with the same socket and nothing
\* happening in between: last is the first call, made by the step into this state
SecondCall(watchOk) == resolveLidToPhoneNumber(CacheState, last.arg, last.sock, watchOk)

\* C5 as claimed: for every LID the second call returns what the first returned
\* and is served from the cache, with no reverse-file read and no directory scan.
SecondCallFromCache ==
    last.op = "resolve" =>
       \A watchOk \in WatchOutcomes :
          /\ SecondCall(watchOk).val = last.val
          /\ SecondCall(watchOk).via = 1
          /\ SecondCall(watchOk).io = {}

\* C5 amended: the second call returns what the first returned; when the first
\* returned a phone number, it is served from the cache with no file-system work.
SecondCallSame ==
    last.op = "resolve" =>
       \A watchOk \in WatchOutcomes :
          /\ SecondCall(watchOk).val = last.val
          /\ last.val # Absent =>
                SecondCall(watchOk).via = 1 /\ SecondCall(watchOk).io = {}

\* a first call that had to read the directory and found a phone number
SecondCallWitness ==
    /\ last.op = "resolve"
    /\ last.via \in {3, 4}
    /\ "reverse" \in last.io
    /\ last.val \in Phones

\* C6 as claimed: after load(), every well-formed forward entry (phone -> lid) of
\* the directory is found by phone and by LID.
LoadRoundTrip ==
    LoadJustRan =>
       \A p \in Phones, l \in StoredLids :
          FwdHolds(l, p) =>
             /\ p \in DOMAIN phoneToLidCache /\ phoneToLidCache[p] = l
             /\ l \in DOMAIN lidToPhoneCache /\ lidToPhoneCache[l] = p

\* C6 amended: after load(), a well-formed forward entry (phone -> lid) is found
\* by phone unless a reverse entry of the directory gives the phone to another
\* LID, and by LID unless another entry of the directory (a forward entry of
\* another phone, or the LID's reverse entry) gives the LID another phone.
LoadRoundTripUnlessConflict ==
    LoadJustRan =>
       \A p \in Phones, l \in StoredLids :
          FwdHolds(l, p) =>
             /\ ~PhoneMappedElsewhere(l, p) =>
                   p \in DOMAIN phoneToLidCache /\ phoneToLidCache[p] = l
             /\ ~LidMappedElsewhere(l, p) =>
                   l \in DOMAIN lidToPhoneCache /\ lidToPhoneCache[l] = p

\* a load over two well-formed forward entries of different LIDs
LoadRoundTripWitness ==
    /\ last.op = "load" /\ "load" \in last.io
    /\ FwdHolds(D10, P1) /\ FwdHolds(LX, P2)
    /\ lidToPhoneCache[D10] = P1 /\ phoneToLidCache[P2] = LX

\* the watch callback has just run for the forward file of phone p, which holds LID l
ReloadedFor(l, p) ==
    /\ last.op = "watch"
    /\ last.arg = LidMappingPrefix \o p \o DotJson
    /\ FwdHolds(l, p)

\* the next resolve(l), with any socket
NextResolve(l, sock) == resolveLidToPhoneNumber(CacheState, l, sock, TRUE)

\* C7 as claimed: after a change notification naming the forward file of phone P
\* that holds LID L, the next resolve(L) returns P, whatever the cache held.
HotReload ==
    \A l \in StoredLids, p \in Phones, sock \in Socks :
       ReloadedFor(l, p) => NextResolve(l, sock).val = p

\* C7 amended: the next resolve(L) returns P provided no other entry of the
\* directory gives L another phone (a forward file of another phone that holds L,
\* or L's reverse file naming another phone).
HotReloadUnlessConflict ==
    \A l \in StoredLids, p \in Phones, sock \in Socks :
       ReloadedFor(l, p) /\ ~LidMappedElsewhere(l, p) => NextResolve(l, sock).val = p

\* a reload for a new forward file of a LID the directory maps nowhere else
HotReloadWitness ==
    /\ ReloadedFor(D10, P1)
    /\ ~LidMappedElsewhere(D10, P1)
    /\ lidToPhoneCache[D10] = P1

\* C8: after the reaction to a change notification naming a forward-mapping
\* file, no entry from before remains in the cache unless the reload read it
\* from the backing directory: every cached pair is one a directory entry gives.
ReloadDropsStale ==
    (last.op = "watch" /\ IsForwardName(last.arg)) =>
       /\ \A l \in DOMAIN lidToPhoneCache :
             FwdHolds(l, lidToPhoneCache[l]) \/ RevHolds(l, lidToPhoneCache[l])
       /\ \A p \in DOMAIN phoneToLidCache :
             FwdHolds(phoneToLidCache[p], p) \/ RevHolds(phoneToLidCache[p], p)

-----------------------------------------------------------------------------
(* Claims on unresolvable identifiers, the heuristic and the canonical form *)

\* the identifier is in LID form / its LID, the part before the "@"
IsLidForm(jid) == jid # Absent /\ Includes(jid, LidSuffix)
LocalPart(jid) ==
    SubSeq(jid, 1, (CHOOSE i \in 1..Len(jid) :
                       jid[i] = "@" /\ \A j \in 1..(i - 1) : jid[j] # "@") - 1)

\* no strategy holds a mapping for the LID of jid and the LID is not 10 to 15
\* digits, on the cache c and the directory as they are
Exhausted(c, jid, sock) == IsLidForm(jid) /\ FirstHolding(c, LocalPart(jid), sock) = 0

\* the record the last normalizeMessage returned
LastNorm == last.norm[1]
NormalizeReturned == last.op = "normalize" /\ ~last.threw

\* normalizeMessage nulls the identity fields of an exhausted sender / participant
ExhaustedFieldsNull ==
    NormalizeReturned =>
       /\ Exhausted(CacheState, LastNorm.fromJidRaw, last.sock) =>
              LastNorm.from = Absent /\ LastNorm.fromJid = Absent
       /\ Exhausted(CacheState, LastNorm.participantJidRaw, last.sock) =>
              LastNorm.participant = Absent /\ LastNorm.participantJid = Absent

\* C3 as claimed: when every strategy is exhausted for a LID and the LID is not
\* 10 to 15 digits, resolve returns absent and leaves the cache (both maps)
\* unchanged, and normalizeMessage sets from / participant and their canonical
\* identifiers to null.
ExhaustedLeavesCacheUnchanged ==
    /\ \A lid \in AllLids, sock \in Socks, watchOk \in WatchOutcomes :
          LET c1 == loadAllLidMappings(CacheState, watchOk)
              r  == resolveLidToPhoneNumber(CacheState, lid, sock, watchOk)
          IN  FirstHolding(c1, lid, sock) = 0 =>
                 /\ r.val = Absent
                 /\ r.cache.l2p = lidToPhoneCache
                 /\ r.cache.p2l = phoneToLidCache
    /\ ExhaustedFieldsNull

\* C3 amended: resolve returns absent and adds nothing to the cache, which is
\* left as the lazy load of the directory (run by the first call) leaves it;
\* normalizeMessage sets from / participant and their canonical identifiers to
\* null, never the raw LID nor a value cached for another identifier.
ExhaustedYieldsNull ==
    /\ \A lid \in AllLids, sock \in Socks, watchOk \in WatchOutcomes :
          LET c1 == loadAllLidMappings(CacheState, watchOk)
              r  == resolveLidToPhoneNumber(CacheState, lid, sock, watchOk)
          IN  FirstHolding(c1, lid, sock) = 0 => r.val = Absent /\ r.cache = c1
    /\ ExhaustedFieldsNull

\* a message of an unresolvable LID sender, normalized while the cache holds the
\* phone of another LID
ExhaustedWitness ==
    /\ NormalizeReturned
    /\ LastNorm.fromJidRaw = LX \o LidSuffix
    /\ Exhausted(CacheState, LastNorm.fromJidRaw, last.sock)
    /\ LastNorm.from = Absent /\ LastNorm.fromJid = Absent
    /\ D10 \in DOMAIN lidToPhoneCache /\ lidToPhoneCache[D10] = P1

\* ten to fifteen characters, every one a decimal digit
TenToFifteenDigits(s) ==
    /\ Len(s) \in 10..15
    /\ \A j \in 1..Len(s) : s[j] \in {"0", "1", "2", "3", "4", "5", "6", "7", "8", "9"}

\* C4: with no backing directory and no socket mapping for the LID, validate()
\* reports authDirExists = false, and resolve(lid) returns the LID itself when it
\* is a string of 10 to 15 decimal digits and absent for any other LID (9 digits,
\* 16 digits, non-numeric).
NoDirHeuristic ==
    /\ last.op = "validate" => last.val[1] = "0"
    /\ last.op = "resolve" =>
          last.val = IF TenToFifteenDigits(last.arg) THEN last.arg ELSE Absent

\* the 15-digit LID resolved to itself by the heuristic, without a directory
NoDirHeuristicWitness ==
    /\ ~authDirExists
    /\ last.op = "resolve" /\ last.arg = D15
    /\ last.val = D15 /\ last.via = 5

\* the longest run of decimal digits jid starts with
DigitRun(jid) ==
    SubSeq(jid, 1, CHOOSE k \in 0..Len(jid) :
                      /\ \A j \in 1..k : jid[j] \in Digits
                      /\ k < Len(jid) => jid[k + 1] \notin Digits)

\* what the claim gives as the canonical form of raw, on the cache as the call left it
Canonical(raw) ==
    IF raw = Absent \/ raw = EmptyStr THEN Absent
    ELSE IF EndsWith(raw, DirectSuffix) \/ EndsWith(raw, GroupSuffix) THEN raw
    ELSE IF IsLidForm(raw)
    THEN IF LocalPart(raw) \in DOMAIN lidToPhoneCache
         THEN lidToPhoneCache[LocalPart(raw)] \o DirectSuffix
         ELSE Absent
    ELSE IF DigitRun(raw) # EmptyStr THEN DigitRun(raw) \o DirectSuffix
    ELSE Absent

\* C9: the canonical identifier of a direct-form or group-form identifier is the
\* identifier unchanged; of a LID-form identifier whose LID resolves to phone P
\* it is P followed by the direct suffix, and absent when the resolution fails;
\* of any other input it is the leading digit run followed by the direct suffix,
\* or absent when there is no leading digit.
CanonicalForm ==
    NormalizeReturned =>
       /\ LastNorm.fromJid = Canonical(LastNorm.fromJidRaw)
       /\ LastNorm.participantJid = Canonical(LastNorm.participantJidRaw)
       /\ IsLidForm(LastNorm.fromJidRaw) /\ LastNorm.from # Absent =>
              LastNorm.fromJid = LastNorm.from \o DirectSuffix

\* a group message of a LID participant whose LID a forward file resolves
CanonicalFormWitness ==
    /\ NormalizeReturned
    /\ LastNorm.fromJidRaw = GroupJid /\ LastNorm.fromJid = GroupJid
    /\ LastNorm.participantJidRaw = D10 \o LidSuffix
    /\ LastNorm.participantJid = P1 \o DirectSuffix

\* C10: normalizeMessage is total: for every raw message, a reaction without a
\* key, a contact list without contacts, a poll without options and a missing
\* sender identifier included, it returns a record and never throws.
NormalizeTotal == last.op = "normalize" => ~last.threw

-----------------------------------------------------------------------------
(* Claims on the content fields of the normalized record *)

MessageTypes == {"text", "image", "video", "audio", "voice", "document", "sticker",
                 "location", "contact", "contacts", "poll", "reaction",
                 "unsupported", "unknown"}
MediaTypes == {"image", "video", "audio", "voice", "document", "sticker"}

\* C11: every record normalizeMessage returns has one messageType of the closed
\* set, and the fields of other kinds are at their defaults: hasMedia is true
\* exactly for the media types; location, contacts, pollData, reactionData,
\* quotedMessage, mentions and duration are set only for the types they belong
\* to, and so are the media attributes, the file name, the caption and the content.
FieldsMatchType ==
    NormalizeReturned =>
       LET n == LastNorm
           t == LastNorm.messageType
       IN  /\ t \in MessageTypes
           /\ n.hasMedia = (t \in MediaTypes)
           /\ n.location # <<>> => t = "location"
           /\ n.contacts # Missing => t \in {"contact", "contacts"}
           /\ n.pollData # <<>> => t = "poll"
           /\ n.reactionData # <<>> => t = "reaction"
           /\ n.quotedMessage # <<>> => t = "text"
           /\ n.mentions # <<>> => t = "text"
           /\ n.mentionLids # <<>> => t = "text"
           /\ n.duration # NullS => t \in {"video", "audio", "voice"}
           /\ n.mimeType # NullS => t \in MediaTypes
           /\ n.fileSize # NullS => t \in MediaTypes
           /\ n.mediaUrl # NullS => t \in MediaTypes
           /\ n.fileName # NullS => t = "document"
           /\ n.caption # NullS => t \in {"image", "video", "document"}
           /\ n.content # NullS => t \in {"text", "unsupported"}

\* a voice note: a media type with a duration and nothing of the other kinds
FieldsMatchTypeWitness ==
    /\ NormalizeReturned
    /\ LastNorm.messageType = "voice"
    /\ LastNorm.hasMedia /\ LastNorm.duration = "12"
    /\ LastNorm.location = <<>> /\ LastNorm.content = NullS

\* the recognized content keys, in the order the chain tests them
RecognizedKeys ==
    <<"conversation", "extendedTextMessage", "imageMessage", "videoMessage",
      "audioMessage", "documentMessage", "stickerMessage", "locationMessage",
      "contactMessage", "contactsArrayMessage", "pollCreationMessage", "reactionMessage">>

\* the place in that order of the first recognized key the block holds, 0 if none
FirstRecognized(block) ==
    IF \E i \in 1..Len(RecognizedKeys) : HasKey(block, RecognizedKeys[i])
    THEN CHOOSE i \in 1..Len(RecognizedKeys) :
            /\ HasKey(block, RecognizedKeys[i])
            /\ \A j \in 1..(i - 1) : ~HasKey(block, RecognizedKeys[j])
    ELSE 0

\* the messageType that goes with a recognized key
TypeOfKey(block, k) ==
    CASE k = "conversation" -> "text"
      [] k = "extendedTextMessage" -> "text"
      [] k = "imageMessage" -> "image"
      [] k = "videoMessage" -> "video"
      [] k = "audioMessage" -> IF ValOf(block, k).ptt THEN "voice" ELSE "audio"
      [] k = "documentMessage" -> "document"
      [] k = "stickerMessage" -> "sticker"
      [] k = "locationMessage" -> "location"
      [] k = "contactMessage" -> "contact"
      [] k = "contactsArrayMessage" -> "contacts"
      [] k = "pollCreationMessage" -> "poll"
      [] k = "reactionMessage" -> "reaction"

\* C12: messageType is that of the first recognized key present in the content
\* block, in the fixed order, whatever the key's value (an empty conversation
\* string included); a block without a recognized key gives "unsupported" with
\* the name of its first key as content; no content block gives "unknown" with
\* the content fields at their defaults.
DispatchByPresence ==
    NormalizeReturned =>
       LET block == LastNorm.rawMessage
       IN  IF ~last.arg.message.present
           THEN /\ LastNorm.messageType = "unknown"
                /\ LastNorm.content = NullS /\ LastNorm.caption = NullS
                /\ ~LastNorm.hasMedia /\ LastNorm.quotedMessage = <<>>
                /\ LastNorm.mentions = <<>> /\ LastNorm.location = <<>>
           ELSE IF FirstRecognized(block) = 0
           THEN /\ LastNorm.messageType = "unsupported"
                /\ LastNorm.content = IF Len(block) > 0 THEN block[1].k ELSE U
           ELSE LastNorm.messageType = TypeOfKey(block, RecognizedKeys[FirstRecognized(block)])

-----------------------------------------------------------------------------
(* Claims on group messages *)

\* the last len(suffix) characters of jid are the suffix
HasSuffix(jid, suffix) ==
    /\ jid # Absent
    /\ Len(jid) >= Len(suffix)
    /\ \A i \in 1..Len(suffix) : jid[Len(jid) - Len(suffix) + i] = suffix[i]

\* the from field of a message that has jid as its top-level sender and no
\* participant, normalized now over the same socket
AsSender(jid) ==
    normalizeMessage(CacheState, Msg("M0", jid, Absent, 17, Missing), last.sock, TRUE, 0).norm[1].from

\* C13: isGroup is true exactly when the sender identifier ends with the group
\* suffix; the participant of a group message is the full resolution of the
\* participant identifier, the same as that identifier yields as a top-level
\* sender, and not a value taken from the group identifier.
GroupParticipant ==
    NormalizeReturned =>
       /\ LastNorm.isGroup = HasSuffix(LastNorm.fromJidRaw, <<"@", "g", ".", "u", "s">>)
       /\ LastNorm.isGroup /\ LastNorm.participantJidRaw # Absent =>
             LastNorm.participant = AsSender(LastNorm.participantJidRaw)

\* a group message whose LID participant a reverse file resolves
GroupParticipantWitness ==
    /\ NormalizeReturned
    /\ LastNorm.isGroup
    /\ LastNorm.participantJidRaw = D10 \o LidSuffix
    /\ LastNorm.participant = P2
    /\ LastNorm.from = <<"6", "2", "8", "1">>

-----------------------------------------------------------------------------
(* Claims on load, the watch and validate *)

\* C14: load() on a cache already loaded is a no-op: a step that calls it leaves
\* both maps, the loaded flag and the watch handle as they were and reads no
\* directory, whatever became of the backing directory since the first load.
LoadedLoadNoOp ==
    [][(last'.op = "load" /\ mappingsLoaded) =>
          /\ UNCHANGED <<lidToPhoneCache, phoneToLidCache, mappingsLoaded,
                         fileWatcher, watchesStarted>>
          /\ last'.io = {}]_vars

\* a second load() while the directory holds a mapping file the cache has not read
LoadedLoadNoOpWitness ==
    /\ last.op = "load" /\ last.io = {}
    /\ mappingsLoaded
    /\ FwdHolds(D10, P1)
    /\ D10 \notin DOMAIN lidToPhoneCache

\* C15: whenever load() runs while the backing directory does not exist, at the
\* first load or at a reload after the directory was removed, it ends with
\* loaded = true and both maps empty.
MissingDirLoadEmpty ==
    (LoadJustRan /\ ~authDirExists) =>
       /\ mappingsLoaded
       /\ lidToPhoneCache = EmptyMap
       /\ phoneToLidCache = EmptyMap

\* an entry of the directory that parses
WellFormed(e) == e.kind \in {"fwd", "rev"} /\ e.content.ok

\* the LID and the phone a well-formed entry pairs
LidOfEntry(e) == IF e.kind = "fwd" THEN e.content.val ELSE e.key
PhoneOfEntry(e) == IF e.kind = "fwd" THEN e.key ELSE e.content.val

\* the two maps after the well-formed entries from the i-th on are written over
\* them in listing order, the others left out
RECURSIVE WrittenOver(_, _)
WrittenOver(maps, i) ==
    IF i > Len(authFiles) THEN maps
    ELSE IF WellFormed(authFiles[i])
    THEN WrittenOver([l2p |-> (LidOfEntry(authFiles[i]) :> PhoneOfEntry(authFiles[i])) @@ maps.l2p,
                      p2l |-> (PhoneOfEntry(authFiles[i]) :> LidOfEntry(authFiles[i])) @@ maps.p2l],
                     i + 1)
    ELSE WrittenOver(maps, i + 1)

\* load() run now over the directory as it is, whatever the maps hold
LoadNow(watchOk) == loadAllLidMappings([CacheState EXCEPT !.loaded = FALSE], watchOk)

\* the cache c is loaded and holds the maps given
LoadedAs(c, maps) == c.loaded /\ c.l2p = maps.l2p /\ c.p2l = maps.p2l

\* C16: an unparsable entry does not abort load(): over a directory mixing
\* well-formed and unparsable entries in any order, load() ends with loaded =
\* true, the LID and the phone of every well-formed entry are in the cache, and
\* the maps are what writing the well-formed entries alone gives: an unparsable
\* entry adds nothing and stops nothing.
MalformedSkipped ==
    /\ authDirExists =>
          \A watchOk \in WatchOutcomes :
             LoadedAs(LoadNow(watchOk),
                      WrittenOver([l2p |-> lidToPhoneCache, p2l |-> phoneToLidCache], 1))
    /\ (LoadJustRan /\ authDirExists) =>
          /\ mappingsLoaded
          /\ \A i \in 1..Len(authFiles) :
                WellFormed(authFiles[i]) =>
                   /\ LidOfEntry(authFiles[i]) \in DOMAIN lidToPhoneCache
                   /\ PhoneOfEntry(authFiles[i]) \in DOMAIN phoneToLidCache

\* a load over an unparsable forward file listed before a well-formed one
MalformedSkippedWitness ==
    /\ LoadJustRan
    /\ authDirExists
    /\ authFiles = <<Fwd(P2, Unparsable), Fwd(P1, Parsed(D10))>>
    /\ lidToPhoneCache = (D10 :> P1)
    /\ phoneToLidCache = (P1 :> D10)

\* C17: at most one directory watch is ever started: across load, preload,
\* resolve and the reloads of change notifications no step brings the number of
\* watches above one, and a step that starts a watch is one in which load()
\* ran, on a cache not loaded yet, over an existing directory.
OneWatch ==
    [][/\ watchesStarted' <= 1
       /\ watchesStarted' > watchesStarted =>
             /\ authDirExists
             /\ ~mappingsLoaded /\ mappingsLoaded'
             /\ last'.op \in {"load", "resolve"}
             /\ "load" \in last'.io]_vars

\* a reload by the watch callback, with the one watch still the only one
OneWatchWitness ==
    /\ last.op = "watch" /\ IsForwardName(last.arg)
    /\ fileWatcher = "live"
    /\ watchesStarted = 1
    /\ authFiles # <<>>

\* the forward-mapping files the directory holds
ForwardFileCount == Cardinality({i \in 1..Len(authFiles) : authFiles[i].kind = "fwd"})

-----------------------------------------------------------------------------
(* Claims on identifier forms and mentions *)

\* identifiers of every form: missing, empty, LID form around the bounds of the
\* digit pattern, direct form, group form, and others with and without digits
FormJids ==
    {Absent, EmptyStr, P1 \o DirectSuffix, GroupJid, StatusJid, P1 \o BroadcastSuffix}
    \cup {l \o LidSuffix : l \in AllLids}

\* jid without its last n characters
Stripped(jid, n) == SubSeq(jid, 1, Len(jid) - n)

\* the characters of jid before the first "@" or "-"
BeforeSeparator(jid) ==
    SubSeq(jid, 1, (CHOOSE i \in 1..Len(jid) :
                       jid[i] \in {"@", "-"} /\ \A j \in 1..(i - 1) : jid[j] \notin {"@", "-"}) - 1)

\* the phone number the claim gives for jid, resolved now over sock
PhoneByForm(jid, sock) ==
    IF jid = Absent \/ jid = EmptyStr THEN Absent
    ELSE IF HasSuffix(jid, <<"@", "l", "i", "d">>)
    THEN resolveLidToPhoneNumber(CacheState, LocalPart(jid), sock, TRUE).val
    ELSE IF HasSuffix(jid, <<"@", "s", ".", "w", "h", "a", "t", "s", "a", "p", "p", ".", "n", "e", "t">>)
    THEN Stripped(jid, 15)
    ELSE IF HasSuffix(jid, <<"@", "g", ".", "u", "s">>) THEN BeforeSeparator(jid)
    ELSE IF DigitRun(jid) # EmptyStr THEN DigitRun(jid)
    ELSE Absent

\* the LID the claim gives for jid
LidByForm(jid) ==
    IF HasSuffix(jid, <<"@", "l", "i", "d">>) THEN LocalPart(jid) ELSE Absent

Ascending(S) ==
    CHOOSE f \in [1..Cardinality(S) -> S] :
       \A i, j \in 1..Cardinality(S) : i < j => f[i] < f[j]

\* the mentioned identifiers of the last message, when it was normalized as an
\* extended text
LastMentioned ==
    IF /\ NormalizeReturned
       /\ last.arg.message.present
       /\ ~KeyTruthy(LastNorm.rawMessage, "conversation")
       /\ HasKey(LastNorm.rawMessage, "extendedTextMessage")
    THEN MentionedJids(ValOf(LastNorm.rawMessage, "extendedTextMessage").contextInfo)
    ELSE <<>>

\* C20: the mentions of an extended text hold no absent entry, and the phone list
\* and the LID list are aligned: both are made of the same mentioned identifiers,
\* in order, entry i of one being the phone and entry i of the other the LID of
\* the same identifier.
MentionsAligned ==
    NormalizeReturned =>
       /\ \A i \in 1..Len(LastNorm.mentions) : LastNorm.mentions[i] # Absent
       /\ \E kept \in SUBSET (1..Len(LastMentioned)) :
             /\ LastNorm.mentions =
                   [j \in 1..Cardinality(kept) |->
                       PhoneByForm(LastMentioned[Ascending(kept)[j]], last.sock)]
             /\ LastNorm.mentionLids =
                   [j \in 1..Cardinality(kept) |-> LidByForm(LastMentioned[Ascending(kept)[j]])]

-----------------------------------------------------------------------------
(* The messages.upsert handler and the hourly cleanup of whatsapp.js *)

\* the processed-id Set is cleared once it holds more ids than this
CleanupThreshold == 5000

\* most messages.upsert events of a behaviour, most messages of one of them
MaxUpserts == 2
MaxBatch == 2

\* the module's socket, as the handler hands it to normalizeMessage
HookSock == NoSock

FromMe(msg) == [msg EXCEPT !.key.fromMe = TRUE]

\* two ids; a text of someone else and one of the account itself under the same
\* id, a text from a LID sender, and a reaction normalizeMessage throws on
HookMessages ==
    { Msg("A", P1 \o DirectSuffix, Absent, 17, Hi),
      FromMe(Msg("A", P1 \o DirectSuffix, Absent, 17, Hi)),
      Msg("B", D10 \o LidSuffix, Absent, 17, Hi),
      Msg("B", P1 \o DirectSuffix, Absent, 17,
          Some(<<E("reactionMessage", [text |-> "+1", key |-> Missing])>>)) }

Batches == UNION {[1..n -> HookMessages] : n \in 1..MaxBatch}

\* m.type: a live notification, or a replay of history
UpsertTypes == {"notify", "append"}

UpsertEvents == [type : UpsertTypes, messages : Batches]

\* what a handler works on: the Set, the cache, and the record of what was done
HookState ==
    [processed |-> processedMessages, cache |-> CacheState, events |-> events,
     posted |-> postedSinceClear]

\* message i of upsert u was marked processed, normalized, or posted
Ev(kind, u, i) == [kind |-> kind, u |-> u, i |-> i]

\* a handler: suspended at the post of message `at`, or returned (after the
\* error it caught, if any)
Awaiting(i) == [pc |-> "awaiting", at |-> i, error |-> "none"]
ReturnedAt(i, error) == [pc |-> "returned", at |-> i, error |-> error]

\* m.type === 'notify'
IsNotify_AnyType(m) == TRUE
IsNotify(m) == m.type = "notify"

\* !msg.key.fromMe
FromOthers(msg) == ~msg.key.fromMe

\* processedMessages.has(messageId)
Has(P, id) == id \in P

\* processedMessages.add(messageId)
Added_Nothing(P, id) == P
Added(P, id) == P \cup {id}

Marked(st, u, i, id) ==
    [st EXCEPT !.processed = Added(@, id), !.events = @ \cup {Ev("marked", u, i)}]

\* normalizeMessage(msg, sock) ended with r: a throw goes to the catch, a
\* result is posted and the handler suspends
Forwarded(st, u, i, id, r) ==
    IF r.threw
    THEN [st |-> [st EXCEPT !.cache = r.cache], h |-> ReturnedAt(i, "normalize")]
    ELSE [st |-> [st EXCEPT !.cache = r.cache,
                            !.events = @ \cup {Ev("normalized", u, i), Ev("posted", u, i)},
                            !.posted = @ \cup {[u |-> u, i |-> i, id |-> id]}],
          h |-> Awaiting(i)]

\* the for loop from message i on, up to the next await or the end
RECURSIVE RunFrom(_, _, _, _, _, _)
RunFrom(st, u, msgs, i, watchOk, now) ==
    IF i > Len(msgs) THEN [st |-> st, h |-> ReturnedAt(i, "none")]
    ELSE IF ~FromOthers(msgs[i]) THEN RunFrom(st, u, msgs, i + 1, watchOk, now)
    ELSE IF Has(st.processed, msgs[i].key.id) THEN RunFrom(st, u, msgs, i + 1, watchOk, now)
    ELSE Forwarded(Marked(st, u, i, msgs[i].key.id), u, i, msgs[i].key.id,
                   normalizeMessage(st.cache, msgs[i], HookSock, watchOk, now))

\* the handler from its call up to the first await or the end
Started(st, u, m, watchOk, now) ==
    IF webhookUrl /\ IsNotify(m)
    THEN RunFrom(st, u, m.messages, 1, watchOk, now)
    ELSE [st |-> st, h |-> ReturnedAt(0, "none")]

\* the awaited post settled: the loop goes on, or the rejection is caught
Resumed_PastFailure(st, u, m, h, ok, watchOk, now) ==
    RunFrom(st, u, m.messages, h.at + 1, watchOk, now)
Resumed(st, u, m, h, ok, watchOk, now) ==
    IF ok THEN RunFrom(st, u, m.messages, h.at + 1, watchOk, now)
    ELSE [st |-> st, h |-> ReturnedAt(h.at, "post")]

\* the handler ran up to r
Ran(r) ==
    /\ processedMessages' = r.st.processed
    /\ SetCache(r.st.cache)
    /\ events' = r.st.events
    /\ postedSinceClear' = r.st.posted
Begun(r) == Ran(r) /\ handlers' = Append(handlers, r.h)
Continued(r, u) == Ran(r) /\ handlers' = [handlers EXCEPT ![u] = r.h]

InitHook ==
    /\ authDirExists = FALSE
    /\ authFiles = <<>>
    /\ lidToPhoneCache = EmptyMap
    /\ phoneToLidCache = EmptyMap
    /\ mappingsLoaded = FALSE
    /\ fileWatcher = "none"
    /\ watchesStarted = 0
    /\ pending = <<>>
    /\ webhookUrl \in BOOLEAN
    /\ processedMessages = {}
    /\ processedOthers = 0
    /\ upserts = <<>>
    /\ handlers = <<>>
    /\ events = {}
    /\ postedSinceClear = {}
    /\ qrCodeData = NullS
    /\ connects = 1
    /\ last = NoOp

\* the socket emits messages.upsert: its handler runs up to its first await
Upsert ==
    /\ Len(upserts) < MaxUpserts
    /\ \E m \in UpsertEvents, watchOk \in WatchOutcomes, now \in Clock :
          /\ upserts' = Append(upserts, m)
          /\ Begun(Started(HookState, Len(upserts) + 1, m, watchOk, now))
    /\ last' = [op |-> "upsert", u |-> Len(upserts) + 1]
    /\ UNCHANGED <<webhookUrl, processedOthers>>
    /\ EnvUnchanged
    /\ ConnUnchanged

\* the post a handler awaits is answered or fails, and the handler runs on
PostSettles ==
    /\ \E u \in 1..Len(handlers), ok \in BOOLEAN, watchOk \in WatchOutcomes, now \in Clock :
          /\ handlers[u].pc = "awaiting"
          /\ Continued(Resumed(HookState, u, upserts[u], handlers[u], ok, watchOk, now), u)
          /\ last' = [op |-> "settle", u |-> u, ok |-> ok]
    /\ UNCHANGED <<webhookUrl, processedOthers, upserts>>
    /\ EnvUnchanged
    /\ ConnUnchanged

\* handlers of messages not followed here put their ids into the Set
OtherTraffic ==
    /\ webhookUrl
    /\ \E n \in (CleanupThreshold - 1)..(CleanupThreshold + 1) :
          /\ n > processedOthers
          /\ processedOthers' = n
    /\ last' = [op |-> "traffic"]
    /\ UNCHANGED <<webhookUrl, processedMessages, upserts, handlers, events, postedSinceClear>>
    /\ EnvUnchanged
    /\ CodeUnchanged
    /\ ConnUnchanged

\* processedMessages.size > 5000
Oversized == Cardinality(processedMessages) + processedOthers > CleanupThreshold

\* the hourly timer fires
Cleanup ==
    /\ IF Oversized
       THEN /\ processedMessages' = {}
            /\ processedOthers' = 0
            /\ postedSinceClear' = {}
       ELSE UNCHANGED <<processedMessages, processedOthers, postedSinceClear>>
    /\ last' = [op |-> "cleanup", cleared |-> Oversized]
    /\ UNCHANGED <<webhookUrl, upserts, handlers, events>>
    /\ EnvUnchanged
    /\ CodeUnchanged
    /\ ConnUnchanged

NextHook ==
    \/ Upsert
    \/ PostSettles
    \/ OtherTraffic
    \/ Cleanup

SpecHook == InitHook /\ [][NextHook]_vars

-----------------------------------------------------------------------------
(* Claims about the messages.upsert handler *)

\* the message an event is about, and its id
MsgOf(e) == upserts[e.u].messages[e.i]
IdOf(e) == MsgOf(e).key.id

\* the message of an event came as a live notification, from someone else
Live(e) == upserts[e.u].type = "notify" /\ ~MsgOf(e).key.fromMe

\* C21: only messages delivered as live notifications by someone else are marked
\* processed, normalized or posted: every such step of a handler is about a
\* message of a 'notify' upsert that is not flagged fromMe, and every id in the
\* processed-id Set was put there for such a message.
OnlyLiveForwarded ==
    /\ \A e \in events : Live(e)
    /\ \A id \in processedMessages :
          \E e \in events : e.kind = "marked" /\ IdOf(e) = id /\ Live(e)

\* a history replay was handled, and a live batch whose first message is the
\* account's own had its second message, of the same id, posted
OnlyLiveForwardedWitness ==
    \E u, v \in 1..Len(upserts) :
       /\ upserts[u].type = "append"
       /\ handlers[u].pc = "returned"
       /\ upserts[v].type = "notify"
       /\ Len(upserts[v].messages) = 2
       /\ upserts[v].messages[1].key.fromMe
       /\ upserts[v].messages[1].key.id = upserts[v].messages[2].key.id
       /\ Ev("posted", v, 2) \in events
       /\ Ev("normalized", v, 2) \in events
       /\ events = {Ev(k, v, 2) : k \in {"marked", "normalized", "posted"}}

\* no id was posted twice since the processed-id Set was last cleared
PostedOnce == \A x, y \in postedSinceClear : x.id = y.id => x = y

\* the processed-id Set loses an id in this step
SetShrinks ==
    \/ \E id \in processedMessages : id \notin processedMessages'
    \/ processedOthers' < processedOthers

\* C22: between two clears of the processed-id Set an id is posted at most once,
\* however the handlers of concurrent upserts interleave at their posts and
\* however often a batch repeats an id; and the Set loses ids only when the
\* hourly timer finds more than 5000 ids in it.
DedupBetweenClears ==
    /\ []PostedOnce
    /\ [][SetShrinks => (last'.op = "cleanup" /\ Oversized)]_vars

\* while one handler is suspended at the post of an id, a second upsert brought
\* the same id twice and its handler returned without a step for it
DedupBetweenClearsWitness ==
    \E u, v \in 1..Len(upserts) :
       /\ u # v
       /\ handlers[u] = Awaiting(1)
       /\ upserts[v].type = "notify"
       /\ Len(upserts[v].messages) = 2
       /\ \A i \in 1..2 :
             /\ ~upserts[v].messages[i].key.fromMe
             /\ upserts[v].messages[i].key.id = upserts[u].messages[1].key.id
       /\ handlers[v].pc = "returned"
       /\ \A e \in events : e.u = u
       /\ Cardinality(postedSinceClear) = 1

\* whatever a handler that caught a failed post did was for the messages up to
\* the failed one, and the handler has returned
StoppedAtFailure ==
    \A u \in 1..Len(handlers) :
       handlers[u].error = "post" =>
          /\ handlers[u].pc = "returned"
          /\ \A e \in events : e.u = u => e.i <= handlers[u].at

\* the step in which the post a handler awaits fails
PostFails == last'.op = "settle" /\ ~last'.ok

\* C23: when the post of a message fails, its handler returns there and then,
\* having caught the error: it marks, normalizes and posts nothing more of the
\* batch, and the id of the failed message is not taken out of the
\* processed-id Set, so that a redelivery of it is skipped.
FailureStopsBatch ==
    /\ []StoppedAtFailure
    /\ [][PostFails =>
            /\ handlers[last'.u].pc = "awaiting"
            /\ handlers' = [handlers EXCEPT
                               ![last'.u] = ReturnedAt(handlers[last'.u].at, "post")]
            /\ UNCHANGED <<processedMessages, processedOthers, events, postedSinceClear>>]_vars

\* the post of the first of two messages failed: the second one, of another id,
\* was left alone, and a redelivery of the first one was skipped
FailureStopsBatchWitness ==
    \E u, v \in 1..Len(upserts) :
       /\ u # v
       /\ handlers[u] = ReturnedAt(1, "post")
       /\ Len(upserts[u].messages) = 2
       /\ ~upserts[u].messages[2].key.fromMe
       /\ upserts[u].messages[2].key.id \notin processedMessages
       /\ upserts[u].messages[1].key.id \in processedMessages
       /\ events = {Ev(k, u, 1) : k \in {"marked", "normalized", "posted"}}
       /\ upserts[v].type = "notify"
       /\ upserts[v].messages = <<upserts[u].messages[1]>>
       /\ handlers[v] = ReturnedAt(2, "none")
       /\ last.op = "upsert"
       /\ last.u = v

-----------------------------------------------------------------------------
(* Claims on the heuristic result and on the connection *)

\* the cache answers LID l with l itself, as the heuristic left it
HeuristicHeld(l) == l \in DOMAIN lidToPhoneCache /\ lidToPhoneCache[l] = l

\* the directory holds a well-formed mapping file for LID l
FileFor(l) ==
    /\ authDirExists
    /\ \E i \in 1..Len(authFiles) : WellFormed(authFiles[i]) /\ LidOfEntry(authFiles[i]) = l

\* the step is the watch callback reloading the directory
Reloads == last'.op = "watch" /\ StartsWith(last'.arg, LidMappingPrefix)

\* C24: a LID the heuristic returned stays cached as itself; while it is, every
\* resolve of it returns the LID itself, whatever the socket table or a reverse
\* file say; and the entry changes only in a reload by the watch callback that
\* reads a mapping file for that LID, which then puts the file's phone there.
StickyHeuristic ==
    /\ [](\A l \in StoredLids :
            (last.op = "resolve" /\ last.via = 5 /\ last.arg = l) => HeuristicHeld(l))
    /\ [](\A l \in StoredLids, sock \in Socks, watchOk \in WatchOutcomes :
            HeuristicHeld(l) =>
               resolveLidToPhoneNumber(CacheState, l, sock, watchOk).val = l)
    /\ [][\A l \in StoredLids :
            HeuristicHeld(l) =>
               IF Reloads /\ FileFor(l)
               THEN lidToPhoneCache'[l] \in Phones
               ELSE lidToPhoneCache'[l] = l]_vars

\* the LID was resolved by the heuristic before; now a reverse file names a phone
\* for it and the socket table another, and the call just made still returned
\* the LID itself from the cache
StickyHeuristicWitness ==
    /\ last.op = "resolve"
    /\ last.arg = D10
    /\ last.sock = SockWith(D10, P2)
    /\ last.val = D10
    /\ last.via = 1
    /\ RevHolds(D10, P1)
    /\ HeuristicHeld(D10)

-----------------------------------------------------------------------------
(* The connection.update handler of whatsapp.js *)

\* most calls of connectToWhatsApp() in a behaviour
MaxConnects == 3

QrCodes == {"qr-1"}

\* the update the socket emits: connection and qr may each be missing, and a
\* close comes with lastDisconnect, whose error may carry a status code
ConnectionUpdates ==
    [connection : {U, "connecting", "open", "close"},
     qr : {U} \cup QrCodes,
     statusCode : {U, "loggedOut", "connectionLost"}]

\* if (qr) { qrCodeData = qr }
QrStored(stored, update) == IF update.qr # U THEN update.qr ELSE stored

\* lastDisconnect.error?.output?.statusCode !== DisconnectReason.loggedOut
shouldReconnect_Always(update) == TRUE
shouldReconnect(update) == update.statusCode # "loggedOut"

Reconnects(update) == update.connection = "close" /\ shouldReconnect(update)

\* the 'open' branch: validateMappings(), then preloadLidMappings() if the
\* directory is there
Opened(c, watchOk) ==
    IF validateMappings.authDirExists THEN loadAllLidMappings(c, watchOk) ELSE c

\* the directory is as an earlier session left it
InitConn ==
    /\ \E sc \in NormScenes :
          /\ authDirExists = sc.exists
          /\ authFiles = sc.files
    /\ lidToPhoneCache = EmptyMap
    /\ phoneToLidCache = EmptyMap
    /\ mappingsLoaded = FALSE
    /\ fileWatcher = "none"
    /\ watchesStarted = 0
    /\ pending = <<>>
    /\ AppInit
    /\ last = NoOp

\* the socket emits connection.update
ConnectionUpdate ==
    /\ \E update \in ConnectionUpdates, watchOk \in WatchOutcomes :
          /\ Reconnects(update) => connects < MaxConnects
          /\ qrCodeData' = IF update.connection = "open" THEN NullS
                           ELSE QrStored(qrCodeData, update)
          /\ connects' = IF Reconnects(update) THEN connects + 1 ELSE connects
          /\ SetCache(IF update.connection = "open" THEN Opened(CacheState, watchOk)
                      ELSE CacheState)
          /\ last' = [op |-> "connection.update", update |-> update]
    /\ EnvUnchanged
    /\ HookUnchanged

NextConn ==
    \/ ConnectionUpdate
    \/ EnvCreateDir
    \/ EnvRemoveDir

SpecConn == InitConn /\ [][NextConn]_vars

\* the step is the handling of a connection.update with this connection value
Handles(connection) ==
    last'.op = "connection.update" /\ last'.update.connection = connection

\* C25: a 'close' update starts a new connection attempt if and only if its
\* status code is not 'logged out'; an 'open' update clears the stored QR code
\* and, when the backing directory exists, leaves the cache loaded with what
\* the directory holds, while with no directory the cache is left as it was.
ConnectionLifecycle ==
    [][/\ Handles("close") =>
             /\ (connects' = connects + 1) <=> (last'.update.statusCode # "loggedOut")
             /\ (connects' = connects) <=> (last'.update.statusCode = "loggedOut")
       /\ Handles("open") =>
             /\ qrCodeData' = NullS
             /\ connects' = connects
             /\ IF authDirExists
                THEN /\ mappingsLoaded'
                     /\ ~mappingsLoaded =>
                           \A i \in 1..Len(authFiles) :
                              WellFormed(authFiles[i]) =>
                                 LidOfEntry(authFiles[i]) \in DOMAIN lidToPhoneCache'
                ELSE UNCHANGED <<lidToPhoneCache, phoneToLidCache, mappingsLoaded,
                                 fileWatcher, watchesStarted>>]_vars

\* after a reconnect, an 'open' update that came with a QR code left none
\* stored and loaded the mapping the directory holds
ConnectionLifecycleWitness ==
    /\ last.op = "connection.update"
    /\ last.update.connection = "open"
    /\ last.update.qr \in QrCodes
    /\ qrCodeData = NullS
    /\ connects > 1
    /\ FwdHolds(D10, P1)
    /\ D10 \in DOMAIN lidToPhoneCache
    /\ lidToPhoneCache[D10] = P1

====
